---- MODULE Spec2Model ----
(***************************************************************************)
(* Model of the noir-lsp language server (src/src/main.rs): the Backend    *)
(* with its two stores (document_map, ast_map), the LanguageServer          *)
(* handlers that tower-lsp runs interleaved at their await points, the      *)
(* inlay-hint extraction and projection, and offset_to_position.            *)
(*                                                                         *)
(* A Rust String is modelled as the sequence of its characters; the byte    *)
(* length of each character (len_utf8) is kept, so byte offsets (the        *)
(* parser's spans) and character offsets (the rope's indices) differ as in  *)
(* the program.  Sequences are 1-based, offsets are 0-based.                *)
(***************************************************************************)
EXTENDS Integers, Sequences, FiniteSets, TLC

VARIABLES
  document_map,   \* Backend.document_map : uri -> Rope (or Absent)
  ast_map,        \* Backend.ast_map : uri -> ParsedModule (or Absent)
  handlers,       \* the handler futures in flight, each at an await point
  reply,          \* the result of the hint query that completed last
  panic,          \* the panic that ended the server, or NoPanic
  published,      \* diagnostics channel: uri -> diagnostics last published
  received,       \* history: uri -> full text of the event received last
  doc_version,    \* history: uri -> version of the event that wrote the buffer
  ast_version,    \* history: uri -> version of the event that wrote the tree
  buffer,         \* position mapper: the rope handed to offset_to_position
  char_offset,    \* position mapper: the offset handed to it
  mapped          \* position mapper: its result

vars == <<document_map, ast_map, handlers, reply, panic, published, received,
          doc_version, ast_version, buffer, char_offset, mapped>>

----------------------------------------------------------------------------
(* Bounds of the model.                                                    *)

\* number of handler futures in flight at once
MaxInFlight == 2
\* longest buffer enumerated for the position mapper
MaxLen == 4
\* largest version number an event carries
MaxVersion == 3

----------------------------------------------------------------------------
(* Document texts the transport delivers.                                  *)

\* "fn main() { let x = 1; let y = true; let z = foo(); }"  (53 chars)
TextScenarioA ==
  <<
    "f", "n", " ", "m", "a", "i", "n", "(", ")", " ", "{", " ", "l", "e", "t",
    " ", "x", " ", "=", " ", "1", ";", " ", "l", "e", "t", " ", "y", " ", "=",
    " ", "t", "r", "u", "e", ";", " ", "l", "e", "t", " ", "z", " ", "=", " ",
    "f", "o", "o", "(", ")", ";", " ", "}" >>

\* "fn f() { let a = 1; }\nfn g() { let b = \"s\";\n let c = [1, 2]; }"  (62 chars)
TextLiterals ==
  <<
    "f", "n", " ", "f", "(", ")", " ", "{", " ", "l", "e", "t", " ", "a", " ",
    "=", " ", "1", ";", " ", "}", "\n", "f", "n", " ", "g", "(", ")", " ",
    "{", " ", "l", "e", "t", " ", "b", " ", "=", " ", "\"", "s", "\"", ";",
    "\n", " ", "l", "e", "t", " ", "c", " ", "=", " ", "[", "1", ",", " ",
    "2", "]", ";", " ", "}" >>

\* "fn f() {}"  (9 chars)
TextShort ==
  <<
    "f", "n", " ", "f", "(", ")", " ", "{", "}" >>

\* "fn f() { let x = 1; let }"  (25 chars)
TextPartial ==
  <<
    "f", "n", " ", "f", "(", ")", " ", "{", " ", "l", "e", "t", " ", "x", " ",
    "=", " ", "1", ";", " ", "l", "e", "t", " ", "}" >>

\* "#[builtin(b)] fn h() { let k = 1; }\nfn f() { if c { let n = 2; } g(); let m = 3; }"  (82 chars)
TextKinds ==
  <<
    "#", "[", "b", "u", "i", "l", "t", "i", "n", "(", "b", ")", "]", " ", "f",
    "n", " ", "h", "(", ")", " ", "{", " ", "l", "e", "t", " ", "k", " ", "=",
    " ", "1", ";", " ", "}", "\n", "f", "n", " ", "f", "(", ")", " ", "{",
    " ", "i", "f", " ", "c", " ", "{", " ", "l", "e", "t", " ", "n", " ", "=",
    " ", "2", ";", " ", "}", " ", "g", "(", ")", ";", " ", "l", "e", "t", " ",
    "m", " ", "=", " ", "3", ";", " ", "}" >>

\* "fn f() { let s = \"é\"; let x = 1; }"  (34 chars)
TextMultiByte ==
  <<
    "f", "n", " ", "f", "(", ")", " ", "{", " ", "l", "e", "t", " ", "s", " ",
    "=", " ", "\"", "é", "\"", ";", " ", "l", "e", "t", " ", "x", " ", "=",
    " ", "1", ";", " ", "}" >>

\* "fn f() { let a = 1; let b = true;\n let c = \"s\"; let d = [1]; }"  (62 chars)
TextAllKinds ==
  <<
    "f", "n", " ", "f", "(", ")", " ", "{", " ", "l", "e", "t", " ", "a", " ",
    "=", " ", "1", ";", " ", "l", "e", "t", " ", "b", " ", "=", " ", "t", "r",
    "u", "e", ";", "\n", " ", "l", "e", "t", " ", "c", " ", "=", " ", "\"",
    "s", "\"", ";", " ", "l", "e", "t", " ", "d", " ", "=", " ", "[", "1", "]",
    ";", " ", "}" >>

\* "abc\ndefgh"  (9 chars)
TextScenarioB ==
  <<
    "a", "b", "c", "\n", "d", "e", "f", "g", "h" >>

----------------------------------------------------------------------------
(* Characters and byte offsets.                                            *)

Letters == {"a", "b", "c", "d", "e", "f", "g", "h", "i", "j", "k", "l", "m",
            "n", "o", "p", "q", "r", "s", "t", "u", "v", "w", "x", "y", "z", "_"}
Digits == {"0", "1", "2", "3", "4", "5", "6", "7", "8", "9"}
Whitespace == {" ", "\n"}

\* char::len_utf8: the only non-ASCII character of the model takes two bytes
ByteLen(c) == IF c = "é" THEN 2 ELSE 1

\* byte offset of the character at index i (1-based) of s: the sum of the
\* byte lengths of the characters before it (each is 1 or 2 bytes long);
\* i = Len(s)+1 gives the byte length of s
ByteOffset(s, i) ==
  (i - 1) + Cardinality({k \in 1..(i - 1) : ByteLen(s[k]) = 2})

Least(S) == CHOOSE x \in S : \A y \in S : x <= y

\* first index j >= i with s[j] outside class (Len(s)+1 when there is none)
ScanWhile(s, i, class) ==
  LET stops == {j \in i..Len(s) : s[j] \notin class}
  IN IF stops = {} THEN Len(s) + 1 ELSE Least(stops)

\* first index j >= i with s[j] = c (Len(s)+1 when there is none)
ScanTo(s, i, c) ==
  LET hits == {j \in i..Len(s) : s[j] = c}
  IN IF hits = {} THEN Len(s) + 1 ELSE Least(hits)

Token(kind, s, i, j) ==
  [kind |-> kind, text |-> SubSeq(s, i, j - 1),
   start |-> ByteOffset(s, i), end |-> ByteOffset(s, j)]

\* index after the token that starts at i, and the kind of that token
TokenEnd(s, i) ==
  CASE s[i] \in Letters -> ScanWhile(s, i, Letters \cup Digits)
    [] s[i] \in Digits -> ScanWhile(s, i, Digits)
    [] s[i] = "\"" -> ScanTo(s, i + 1, "\"") + 1
    [] s[i] = "#" -> ScanTo(s, i + 1, "]") + 1
    [] OTHER -> i + 1
TokenKind(s, i) ==
  CASE s[i] \in Letters -> "word"
    [] s[i] \in Digits -> "int"
    [] s[i] = "\"" -> "str"
    [] s[i] = "#" -> "attr"
    [] OTHER -> "punct"

\* the lexer: words, integers, string literals, attributes and punctuation,
\* each with its byte span [start, end); an unterminated string or attribute
\* is an error token that ends the token list
RECURSIVE Lex(_, _)
Lex(s, from) ==
  LET i == ScanWhile(s, from, Whitespace)
  IN IF i > Len(s) THEN <<>>
     ELSE LET j == TokenEnd(s, i)
          IN IF j > Len(s) + 1 THEN <<Token("error", s, i, Len(s) + 1)>>
             ELSE <<Token(TokenKind(s, i), s, i, j)>> \o Lex(s, j)

----------------------------------------------------------------------------
(* noirc_frontend::parse_program, for the part of the grammar the server    *)
(* looks at: functions with an optional attribute, let statements,          *)
(* expression statements, if blocks, literals, calls and variables.         *)

IsPunct(toks, k, c) == k <= Len(toks) /\ toks[k].kind = "punct" /\ toks[k].text = <<c>>
IsWord(toks, k, w) == k <= Len(toks) /\ toks[k].kind = "word" /\ toks[k].text = w
IsKind(toks, k, kind) == k <= Len(toks) /\ toks[k].kind = kind

KwLet == <<"l", "e", "t">>
KwFn == <<"f", "n">>
KwIf == <<"i", "f">>
KwTrue == <<"t", "r", "u", "e">>
KwFalse == <<"f", "a", "l", "s", "e">>
Keywords == {KwLet, KwFn, KwIf}

Expression(kind, lit, start, end) ==
  [kind |-> kind, lit |-> lit, span |-> [start |-> start, end |-> end]]
NoExpression == Expression("Error", "None", 0, 0)

Failed(k) == [ok |-> FALSE, next |-> k]

\* the elements of an array literal after "[": next is the index after "]"
RECURSIVE ParseElems(_, _)
RECURSIVE ParseExpr(_, _)
ParseElems(toks, k) ==
  IF IsPunct(toks, k, "]") THEN [ok |-> TRUE, next |-> k + 1]
  ELSE LET e == ParseExpr(toks, k)
       IN IF ~e.ok THEN Failed(e.next)
          ELSE IF IsPunct(toks, e.next, ",") THEN ParseElems(toks, e.next + 1)
          ELSE IF IsPunct(toks, e.next, "]") THEN [ok |-> TRUE, next |-> e.next + 1]
          ELSE Failed(e.next)

ParseExpr(toks, k) ==
  IF IsKind(toks, k, "int") THEN
    [ok |-> TRUE, next |-> k + 1,
     expr |-> Expression("Literal", "Integer", toks[k].start, toks[k].end)]
  ELSE IF IsWord(toks, k, KwTrue) \/ IsWord(toks, k, KwFalse) THEN
    [ok |-> TRUE, next |-> k + 1,
     expr |-> Expression("Literal", "Bool", toks[k].start, toks[k].end)]
  ELSE IF IsKind(toks, k, "str") THEN
    [ok |-> TRUE, next |-> k + 1,
     expr |-> Expression("Literal", "Str", toks[k].start, toks[k].end)]
  ELSE IF IsPunct(toks, k, "[") THEN
    LET r == ParseElems(toks, k + 1)
    IN IF r.ok
       THEN [ok |-> TRUE, next |-> r.next,
             expr |-> Expression("Literal", "Array", toks[k].start, toks[r.next - 1].end)]
       ELSE [ok |-> FALSE, next |-> r.next, expr |-> NoExpression]
  ELSE IF IsKind(toks, k, "word") /\ toks[k].text \notin Keywords THEN
    IF IsPunct(toks, k + 1, "(") /\ IsPunct(toks, k + 2, ")")
    THEN [ok |-> TRUE, next |-> k + 3,
          expr |-> Expression("Call", "None", toks[k].start, toks[k + 2].end)]
    ELSE [ok |-> TRUE, next |-> k + 1,
          expr |-> Expression("Variable", "None", toks[k].start, toks[k].end)]
  ELSE [ok |-> FALSE, next |-> k, expr |-> NoExpression]

\* Statement::Let(val) with val.expression, or Statement::Expression; an if
\* statement keeps the statements of its block in body
StatementOf(stmt, expr, body) == [stmt |-> stmt, expression |-> expr, body |-> body]

\* the statements of a block after "{": stops at "}" (ok) or at the first
\* token that starts no statement (not ok); stmts are those parsed until then
RECURSIVE ParseStmts(_, _, _)
ParseStmts(toks, k, acc) ==
  IF IsPunct(toks, k, "}") THEN [ok |-> TRUE, next |-> k + 1, stmts |-> acc]
  ELSE IF IsWord(toks, k, KwLet) THEN
    IF IsKind(toks, k + 1, "word") /\ IsPunct(toks, k + 2, "=")
    THEN LET e == ParseExpr(toks, k + 3)
         IN IF e.ok /\ IsPunct(toks, e.next, ";")
            THEN ParseStmts(toks, e.next + 1,
                            Append(acc, StatementOf("Let", e.expr, <<>>)))
            ELSE [ok |-> FALSE, next |-> e.next, stmts |-> acc]
    ELSE [ok |-> FALSE, next |-> k + 1, stmts |-> acc]
  ELSE IF IsWord(toks, k, KwIf) THEN
    LET c == ParseExpr(toks, k + 1)
    IN IF c.ok /\ IsPunct(toks, c.next, "{")
       THEN LET b == ParseStmts(toks, c.next + 1, <<>>)
            IN IF b.ok
               THEN ParseStmts(toks, b.next,
                      Append(acc, StatementOf("Expression",
                        Expression("If", "None", toks[k].start, toks[b.next - 1].end),
                        b.stmts)))
               ELSE [ok |-> FALSE, next |-> b.next, stmts |-> acc]
       ELSE [ok |-> FALSE, next |-> c.next, stmts |-> acc]
  ELSE
    LET e == ParseExpr(toks, k)
    IN IF e.ok /\ IsPunct(toks, e.next, ";")
       THEN ParseStmts(toks, e.next + 1,
                       Append(acc, StatementOf("Expression", e.expr, <<>>)))
       ELSE [ok |-> FALSE, next |-> e.next, stmts |-> acc]

\* FunctionKind of a function from its attribute
FunctionKind(toks, k) ==
  IF ~IsKind(toks, k, "attr") THEN "Normal"
  ELSE IF SubSeq(toks[k].text, 3, 9) = <<"b", "u", "i", "l", "t", "i", "n">> THEN "Builtin"
  ELSE IF SubSeq(toks[k].text, 3, 9) = <<"f", "o", "r", "e", "i", "g", "n">> THEN "LowLevel"
  ELSE "Normal"

NoirFunction(kind, stmts) == [kind |-> kind, def |-> [body |-> stmts]]

ParserError(toks, k) ==
  [span |-> IF k <= Len(toks) THEN toks[k].start
            ELSE IF Len(toks) > 0 THEN toks[Len(toks)].end ELSE 0]

\* the functions of a module; at the first syntax error the parser reports
\* one diagnostic and keeps what it has parsed (a partial tree)
RECURSIVE ParseFunctions(_, _, _)
ParseFunctions(toks, k, acc) ==
  IF k > Len(toks) THEN <<[functions |-> acc], <<>>>>
  ELSE
    LET kind == FunctionKind(toks, k)
        f == IF IsKind(toks, k, "attr") THEN k + 1 ELSE k
    IN IF IsWord(toks, f, KwFn) /\ IsKind(toks, f + 1, "word")
          /\ IsPunct(toks, f + 2, "(") /\ IsPunct(toks, f + 3, ")")
          /\ IsPunct(toks, f + 4, "{")
       THEN LET b == ParseStmts(toks, f + 5, <<>>)
            IN IF b.ok
               THEN ParseFunctions(toks, b.next, Append(acc, NoirFunction(kind, b.stmts)))
               ELSE <<[functions |-> Append(acc, NoirFunction(kind, b.stmts))],
                      <<ParserError(toks, b.next)>>>>
       ELSE <<[functions |-> acc], <<ParserError(toks, f)>>>>

\* parse_program(source) -> (ParsedModule, Vec<ParserError>)
ParseText(text) == ParseFunctions(Lex(text, 1), 1, <<>>)

----------------------------------------------------------------------------
(* ropey::Rope, indexed by character.                                      *)

\* Rope::from_str: the rope holds the characters of the text
Rope_from_str(text) == text

\* number of line breaks among the first n characters of the rope
LineBreaks(rope, n) == Cardinality({k \in 1..n : rope[k] = "\n"})

len_chars(rope) == Len(rope)
len_lines(rope) == LineBreaks(rope, Len(rope)) + 1

Err == [ok |-> FALSE, val |-> 0]
Ok(v) == [ok |-> TRUE, val |-> v]

\* Rope::try_char_to_line: the line of the character at char_idx; an index one
\* past the end is allowed and lies on the last line.  A negative char_idx
\* stands for a u32 subtraction that wrapped: it is beyond every buffer
try_char_to_line(rope, char_idx) ==
  IF char_idx < 0 \/ char_idx > len_chars(rope) THEN Err
  ELSE Ok(LineBreaks(rope, char_idx))

\* character index (0-based) at which the line number line starts: 0, or
\* the index after the line-th line break; len_chars for the line past the
\* last line break count
LineStart(rope, line) ==
  IF line = 0 THEN 0
  ELSE LET after == {i \in 1..Len(rope) : rope[i] = "\n" /\ LineBreaks(rope, i) = line}
       IN IF after = {} THEN Len(rope) ELSE Least(after)

\* Rope::try_line_to_char: the index of the first character of the line; the
\* line one past the last is allowed and starts at len_chars
try_line_to_char(rope, line_idx) ==
  IF line_idx > len_lines(rope) THEN Err ELSE Ok(LineStart(rope, line_idx))

\* Position::new(line as u32, column as u32): the casts keep every value a
\* buffer of the model can give
Position_new(line, character) == [line |-> line, character |-> character]
None == [some |-> FALSE, val |-> Position_new(0, 0)]
Some(v) == [some |-> TRUE, val |-> v]

offset_to_position_off_by_one(offset, rope) ==
  LET line == try_char_to_line(rope, offset)
  IN IF ~line.ok THEN None
     ELSE LET first_char_of_line == try_line_to_char(rope, line.val)
          IN IF ~first_char_of_line.ok THEN None
             ELSE Some(Position_new(line.val, offset - first_char_of_line.val + 1))

offset_to_position_strict_end(offset, rope) ==
  IF offset >= len_chars(rope) THEN None
  ELSE offset_to_position_off_by_one(offset, rope)

\* fn offset_to_position(offset: usize, rope: &Rope) -> Option<Position>
offset_to_position(offset, rope) ==
  LET line == try_char_to_line(rope, offset)
  IN IF ~line.ok THEN None
     ELSE LET first_char_of_line == try_line_to_char(rope, line.val)
          IN IF ~first_char_of_line.ok THEN None
             ELSE LET column == offset - first_char_of_line.val
                  IN Some(Position_new(line.val, column))

----------------------------------------------------------------------------
(* Backend::inlay_hint: collection of the binding sites and projection.     *)

NoLabel == [some |-> FALSE, val |-> ""]
Label(s) == [some |-> TRUE, val |-> s]

\* the match on val.expression.kind: the label of a literal, None otherwise
literal_type(expression) ==
  IF expression.kind = "Literal" THEN
    CASE expression.lit = "Array" -> Label(": array")
      [] expression.lit = "Bool" -> Label(": bool")
      [] expression.lit = "Integer" -> Label(": integer")
      [] expression.lit = "Str" -> Label(": string")
  ELSE NoLabel

\* the inner for_each: every Statement::Let of the body pushes
\* (span.start, span.end, literal_type), whatever literal_type is
RECURSIVE StatementInlays(_, _)
StatementInlays(body, i) ==
  IF i > Len(body) THEN <<>>
  ELSE (IF body[i].stmt = "Let"
        THEN <<[start |-> body[i].expression.span.start,
                end |-> body[i].expression.span.end,
                label |-> literal_type(body[i].expression)]>>
        ELSE <<>>) \o StatementInlays(body, i + 1)

\* a traversal that visits the functions of every kind
RECURSIVE FunctionInlays_all_kinds(_, _)
FunctionInlays_all_kinds(functions, i) ==
  IF i > Len(functions) THEN <<>>
  ELSE StatementInlays(functions[i].def.body, 1)
       \o FunctionInlays_all_kinds(functions, i + 1)

\* the outer for_each: the functions of kind Normal, in order
RECURSIVE FunctionInlays(_, _)
FunctionInlays(functions, i) ==
  IF i > Len(functions) THEN <<>>
  ELSE (IF functions[i].kind = "Normal"
        THEN StatementInlays(functions[i].def.body, 1)
        ELSE <<>>) \o FunctionInlays(functions, i + 1)

CollectInlays(ast) == FunctionInlays(ast.functions, 1)

\* (item.0 - 2) as usize: the subtraction is on u32; below 2 it panics in a
\* debug build and wraps in a release build to an offset beyond every buffer
\* (kept negative here), where the unwrap of None panics as well
AnchorBack == 2
\* an anchor at the span start itself
AnchorOffset_at_start(start) == start
AnchorOffset(start) == start - AnchorBack

InlayHintOf(position, label) ==
  [position |-> position, kind |-> "TYPE", label |-> label]

\* the map closure over inlays, in order: offset_to_position(..).unwrap(),
\* then item.2.clone().unwrap(); the first unwrap of None panics
RECURSIVE ProjectInlays(_, _, _, _)
ProjectInlays(inlays, i, document, acc) ==
  IF i > Len(inlays) THEN [panic |-> "none", hints |-> acc]
  ELSE LET end_position == offset_to_position(AnchorOffset(inlays[i].start), document)
       IN IF ~end_position.some
          THEN [panic |-> "offset_to_position.unwrap", hints |-> acc]
          ELSE IF ~inlays[i].label.some
          THEN [panic |-> "literal_type.unwrap", hints |-> acc]
          ELSE ProjectInlays(inlays, i + 1, document,
                 Append(acc, InlayHintOf(end_position.val, inlays[i].label.val)))

----------------------------------------------------------------------------
(* The server state and the events of the transport.                       *)

Uris == {"file:///a.nr", "file:///b.nr"}

\* the full texts that opened/changed events carry
Texts == {TextScenarioA, TextLiterals, TextPartial}

\* the server advertises TextDocumentSyncKind::FULL, so a change event carries
\* one change holding the full text; the empty list is the malformed event
ChangeLists == {<<>>} \cup {<<t>> : t \in Texts}

\* every text of the model (the last five are not sent by the transport of
\* the main specification)
AllTexts ==
  Texts \cup {TextShort, TextKinds, TextMultiByte, TextAllKinds, TextScenarioB}

\* parse_program is pure: its results, computed once per text
ParseTable == [t \in AllTexts |-> ParseText(t)]
parse_program(text) == ParseTable[text]

NoPanic == [site |-> "none", uri |-> "none"]
NoReply == [status |-> "none", uri |-> "none", hints |-> <<>>]

insert_into_fresh_map(map, key, value) == [k \in {key} |-> value]

\* DashMap::insert
insert(map, key, value) ==
  [k \in DOMAIN map \cup {key} |-> IF k = key THEN value ELSE map[k]]

EmptyMap == [k \in {} |-> 0]

\* a handler future suspended at an await point (or between the two writes
\* of on_change); uri, text and version are those of its TextDocumentItem,
\* inlays is the local vector of inlay_hint; tree_version is history: the
\* version of the event whose tree the hint query read
Handler(kind, uri, text, version, pc, inlays) ==
  [kind |-> kind, uri |-> uri, text |-> text, version |-> version, pc |-> pc,
   inlays |-> inlays, tree_version |-> 0]

\* on_change has no await point between its two inserts: while a handler is
\* between them no other handler is polled
InOnChange == \E h \in handlers : h.pc = "insert_ast"
Serving == panic = NoPanic /\ ~InOnChange
CanAccept == Serving /\ Cardinality(handlers) < MaxInFlight

NotMapped == [called |-> FALSE, result |-> None]

Init ==
  /\ document_map = EmptyMap
  /\ ast_map = EmptyMap
  /\ handlers = {}
  /\ reply = NoReply
  /\ panic = NoPanic
  /\ published = EmptyMap
  /\ received = EmptyMap
  /\ doc_version = EmptyMap
  /\ ast_version = EmptyMap
  /\ buffer = <<>>
  /\ char_offset = 0
  /\ mapped = NotMapped

MapperVars == <<buffer, char_offset, mapped>>
HistoryVars == <<doc_version, ast_version>>
ServerVars == <<document_map, ast_map, handlers, reply, panic, published, received,
                HistoryVars>>

on_change_document_missing(map, params) == map

on_change_document_append(map, params) ==
  IF params.uri \in DOMAIN map
  THEN insert(map, params.uri, map[params.uri] \o Rope_from_str(params.text))
  ELSE insert(map, params.uri, Rope_from_str(params.text))

\* on_change, first statement: the rope of the text replaces the buffer
\* an on_change that keeps the entry written by an event of a higher version
on_change_document_ignore_stale(map, params) ==
  IF params.uri \in DOMAIN doc_version /\ params.version < doc_version[params.uri]
  THEN map
  ELSE insert(map, params.uri, Rope_from_str(params.text))

on_change_document(map, params) ==
  insert(map, params.uri, Rope_from_str(params.text))

on_change_ast_keep_on_error(map, params) ==
  IF parse_program(params.text)[2] # <<>> /\ params.uri \in DOMAIN map
  THEN map
  ELSE insert(map, params.uri, parse_program(params.text)[1])

\* on_change, second statement: the tree of parse_program(text).0 replaces
\* the tree; the diagnostics (.1) are dropped
on_change_ast(map, params) ==
  insert(map, params.uri, parse_program(params.text)[1])

\* did_open up to its first await (the log message)
DidOpen(uri, text, version) ==
  /\ CanAccept
  /\ handlers' = handlers \cup {Handler("did_open", uri, text, version, "log", <<>>)}
  /\ received' = insert(received, uri, text)
  /\ UNCHANGED <<document_map, ast_map, reply, panic, published, HistoryVars, MapperVars>>

\* did_open after the log message: on_change, first insert
DidOpenOnChange(h) ==
  /\ Serving
  /\ h.kind = "did_open" /\ h.pc = "log"
  /\ document_map' = on_change_document(document_map, h)
  /\ doc_version' = insert(doc_version, h.uri, h.version)
  /\ handlers' = (handlers \ {h}) \cup {[h EXCEPT !.pc = "insert_ast"]}
  /\ UNCHANGED <<ast_map, reply, panic, published, received, ast_version, MapperVars>>

\* did_change: content_changes[0] panics on an empty list; otherwise
\* on_change runs at once (no await before it), first insert
\* a did_change whose on_change writes the tree and has not written the buffer
DidChange_tree_first(uri, content_changes, version) ==
  /\ CanAccept
  /\ content_changes # <<>>
  /\ ast_map' = insert(ast_map, uri, parse_program(content_changes[1])[1])
  /\ ast_version' = insert(ast_version, uri, version)
  /\ UNCHANGED <<document_map, doc_version, handlers, reply, panic, published,
                 received, MapperVars>>

DidChange(uri, content_changes, version) ==
  /\ CanAccept
  /\ IF content_changes = <<>>
     THEN /\ panic' = [site |-> "content_changes[0]", uri |-> uri]
          /\ UNCHANGED <<document_map, handlers, received, doc_version>>
     ELSE LET h == Handler("did_change", uri, content_changes[1], version,
                           "insert_ast", <<>>)
          IN /\ document_map' = on_change_document(document_map, h)
             /\ doc_version' = insert(doc_version, uri, version)
             /\ handlers' = handlers \cup {h}
             /\ received' = insert(received, uri, content_changes[1])
             /\ UNCHANGED panic
  /\ UNCHANGED <<ast_map, reply, published, ast_version, MapperVars>>

\* on_change, second insert; the handler is finished
OnChangeAst(h) ==
  /\ panic = NoPanic
  /\ h.pc = "insert_ast"
  /\ ast_map' = on_change_ast(ast_map, h)
  /\ ast_version' = insert(ast_version, h.uri, h.version)
  /\ handlers' = handlers \ {h}
  /\ UNCHANGED <<document_map, reply, panic, published, received, doc_version, MapperVars>>

\* did_save up to its await (the log message)
DidSave(uri) ==
  /\ CanAccept
  /\ handlers' = handlers \cup {Handler("did_save", uri, <<>>, 0, "log", <<>>)}
  /\ UNCHANGED <<document_map, ast_map, reply, panic, published, received, HistoryVars,
               MapperVars>>

DidSaveDone(h) ==
  /\ Serving
  /\ h.kind = "did_save" /\ h.pc = "log"
  /\ handlers' = handlers \ {h}
  /\ UNCHANGED <<document_map, ast_map, reply, panic, published, received, HistoryVars,
               MapperVars>>

\* did_close up to its await (the log message)
DidClose(uri) ==
  /\ CanAccept
  /\ handlers' = handlers \cup {Handler("did_close", uri, <<>>, 0, "log", <<>>)}
  /\ UNCHANGED <<document_map, ast_map, reply, panic, published, received, HistoryVars,
               MapperVars>>

\* did_close after the log message: it returns, the stores are not touched
DidCloseDone(h) ==
  /\ Serving
  /\ h.kind = "did_close" /\ h.pc = "log"
  /\ handlers' = handlers \ {h}
  /\ UNCHANGED <<document_map, ast_map, reply, panic, published, received, HistoryVars,
               MapperVars>>

\* inlay_hint up to its awaits on the two log messages that precede the tree
\* read (nothing is read or written between them: one await point)
InlayHint(uri) ==
  /\ CanAccept
  /\ handlers' = handlers \cup {Handler("inlay_hint", uri, <<>>, 0, "log_uri", <<>>)}
  /\ UNCHANGED <<document_map, ast_map, reply, panic, published, received, HistoryVars,
               MapperVars>>

\* inlay_hint up to its third await (log of the inlays):
\* ast_map.get(uri).unwrap() and the traversal of the tree
InlayHintCollect(h) ==
  /\ Serving
  /\ h.kind = "inlay_hint" /\ h.pc = "log_uri"
  /\ IF h.uri \notin DOMAIN ast_map
     THEN /\ panic' = [site |-> "ast_map.get.unwrap", uri |-> h.uri]
          /\ UNCHANGED handlers
     ELSE /\ handlers' = (handlers \ {h}) \cup
               {[h EXCEPT !.pc = "log_inlays",
                          !.inlays = CollectInlays(ast_map[h.uri]),
                          !.tree_version = ast_version[h.uri]]}
          /\ UNCHANGED panic
  /\ UNCHANGED <<document_map, ast_map, reply, published, received, HistoryVars,
               MapperVars>>

\* inlay_hint to its end: document_map.get(uri), Ok(None) when absent,
\* otherwise the projection of every inlay and Ok(Some(list))
InlayHintProject(h) ==
  /\ Serving
  /\ h.kind = "inlay_hint" /\ h.pc = "log_inlays"
  /\ IF h.uri \notin DOMAIN document_map
     THEN /\ reply' = [status |-> "Ok(None)", uri |-> h.uri, hints |-> <<>>]
          /\ handlers' = handlers \ {h}
          /\ UNCHANGED panic
     ELSE LET r == ProjectInlays(h.inlays, 1, document_map[h.uri], <<>>)
          IN IF r.panic # "none"
             THEN /\ panic' = [site |-> r.panic, uri |-> h.uri]
                  /\ UNCHANGED <<handlers, reply>>
             ELSE /\ reply' = [status |-> "Ok(Some)", uri |-> h.uri, hints |-> r.hints]
                  /\ handlers' = handlers \ {h}
                  /\ UNCHANGED panic
  /\ UNCHANGED <<document_map, ast_map, published, received, HistoryVars, MapperVars>>

\* the events of the main specification all carry the same version number
\* (the code never reads it); SpecVersions varies it
Versions == {1}

Next ==
  \/ \E uri \in Uris, text \in Texts, version \in Versions :
       DidOpen(uri, text, version)
  \/ \E uri \in Uris, content_changes \in ChangeLists, version \in Versions :
       DidChange(uri, content_changes, version)
  \/ \E uri \in Uris : DidSave(uri)
  \/ \E uri \in Uris : DidClose(uri)
  \/ \E uri \in Uris : InlayHint(uri)
  \/ \E h \in handlers : DidOpenOnChange(h)
  \/ \E h \in handlers : OnChangeAst(h)
  \/ \E h \in handlers : DidSaveDone(h)
  \/ \E h \in handlers : DidCloseDone(h)
  \/ \E h \in handlers : InlayHintCollect(h)
  \/ \E h \in handlers : InlayHintProject(h)

Spec == Init /\ [][Next]_vars

----------------------------------------------------------------------------
(* The position mapper on its own: offset_to_position applied to every      *)
(* buffer of up to MaxLen characters and every offset up to one past the    *)
(* last valid one.                                                          *)

RopeChars == {"a", "\n", "é"}

RECURSIVE RopesOfLen(_)
RopesOfLen(n) ==
  IF n = 0 THEN {<<>>}
  ELSE {Append(r, c) : r \in RopesOfLen(n - 1), c \in RopeChars}

Ropes == UNION {RopesOfLen(n) : n \in 0..MaxLen} \cup {TextScenarioB}

InitMapper ==
  /\ document_map = EmptyMap
  /\ ast_map = EmptyMap
  /\ handlers = {}
  /\ reply = NoReply
  /\ panic = NoPanic
  /\ published = EmptyMap
  /\ received = EmptyMap
  /\ doc_version = EmptyMap
  /\ ast_version = EmptyMap
  /\ buffer \in Ropes
  /\ char_offset \in 0..(Len(buffer) + 2)
  /\ mapped = NotMapped

MapOffset ==
  /\ ~mapped.called
  /\ mapped' = [called |-> TRUE, result |-> offset_to_position(char_offset, buffer)]
  /\ UNCHANGED <<ServerVars, buffer, char_offset>>

NextMapper == MapOffset

SpecMapper == InitMapper /\ [][NextMapper]_vars

----------------------------------------------------------------------------
(* The hint query against one document that is changed a few times: the    *)
(* texts hold every literal kind, a function that is not Normal, a let     *)
(* nested in a block, and a two-byte character before a binding.            *)

HintUri == "file:///a.nr"
HintTexts == {TextAllKinds, TextKinds, TextMultiByte}

\* the change events of a document are numbered in the order they arrive
NextVersion(uri) ==
  IF uri \in DOMAIN doc_version THEN doc_version[uri] + 1 ELSE 1

NextHints ==
  \/ \E text \in HintTexts :
       /\ NextVersion(HintUri) <= MaxVersion
       /\ DidChange(HintUri, <<text>>, NextVersion(HintUri))
  \/ InlayHint(HintUri)
  \/ \E h \in handlers : OnChangeAst(h)
  \/ \E h \in handlers : InlayHintCollect(h)
  \/ \E h \in handlers : InlayHintProject(h)

SpecHints == Init /\ [][NextHints]_vars

----------------------------------------------------------------------------
(* did_open and did_change of one document with any version number.         *)

VersionTexts == {TextShort, TextPartial}

NextVersions ==
  \/ \E text \in VersionTexts, version \in 1..MaxVersion :
       DidOpen(HintUri, text, version)
  \/ \E text \in VersionTexts, version \in 1..MaxVersion :
       DidChange(HintUri, <<text>>, version)
  \/ \E h \in handlers : DidOpenOnChange(h)
  \/ \E h \in handlers : OnChangeAst(h)

SpecVersions == Init /\ [][NextVersions]_vars

----------------------------------------------------------------------------
(* Properties.                                                             *)

OnChangeInProgress(uri) == \E h \in handlers : h.uri = uri /\ h.pc = "insert_ast"

\* C1: a hint query for a document identifier that was never opened returns
\* an absent or empty result and does not abort the server: the server never
\* panics at the tree lookup of a query for an identifier of which no opened
\* or changed event was ever received.
C1_GracefulMiss ==
  ~(panic.site = "ast_map.get.unwrap" /\ panic.uri \notin DOMAIN received)

\* C2: after a closed event for a document neither store holds an entry for
\* its identifier: the step in which a did_close handler finishes leaves the
\* identifier in neither document_map nor ast_map.
C2_CloseRemovesEntries ==
  [][\A h \in handlers :
       (h.kind = "did_close" /\ h \notin handlers')
         => (h.uri \notin DOMAIN document_map' /\ h.uri \notin DOMAIN ast_map')]_vars

\* C3: once all handlers have finished, the buffer of every document equals
\* the full text of the opened/changed event received last for it.
C3_BufferIsLatestText ==
  (handlers = {} /\ panic = NoPanic)
    => \A uri \in DOMAIN received :
         uri \in DOMAIN document_map /\ document_map[uri] = received[uri]

\* C4: whenever no on_change is in progress for a document, its tree is
\* exactly the tree parse_program returns for the text in its buffer, also
\* when the parser reported diagnostics (a document has a tree exactly when
\* it has a buffer).
C4_TreeIsParseOfBuffer ==
  \A uri \in Uris :
    ~OnChangeInProgress(uri)
      => /\ (uri \in DOMAIN ast_map) = (uri \in DOMAIN document_map)
         /\ uri \in DOMAIN ast_map
              => ast_map[uri] = parse_program(document_map[uri])[1]

\* C4 witness: a document whose text gave diagnostics holds the partial tree
\* of that text, with no on_change in progress, while the other document
\* holds another text.
C4_Witness ==
  \E uri \in DOMAIN ast_map, other \in DOMAIN ast_map :
    /\ ~InOnChange
    /\ document_map[uri] = TextPartial
    /\ parse_program(TextPartial)[2] # <<>>
    /\ ast_map[uri] = parse_program(TextPartial)[1]
    /\ document_map[other] = TextLiterals

\* C5: a local binding whose expression is no literal gives no Binding site
\* and no hint, and the query still returns: no collected site is without a
\* label, and the query never panics unwrapping a label.
C5_NonLiteralGivesNoSite ==
  /\ \A h \in handlers : \A i \in 1..Len(h.inlays) : h.inlays[i].label.some
  /\ panic.site # "literal_type.unwrap"

\* C6: a Binding site whose anchor does not resolve in the current buffer is
\* dropped and the query does not abort: the query never panics unwrapping
\* the result of offset_to_position.
C6_StaleOffsetDropped == panic.site # "offset_to_position.unwrap"

\* the literal-typed let statements of the Normal functions of a tree, in
\* source order, as (span start, label)
RECURSIVE LiteralLets(_, _)
LiteralLets(body, i) ==
  IF i > Len(body) THEN <<>>
  ELSE (IF body[i].stmt = "Let" /\ body[i].expression.kind = "Literal"
        THEN <<[start |-> body[i].expression.span.start,
                label |-> literal_type(body[i].expression).val]>>
        ELSE <<>>) \o LiteralLets(body, i + 1)
RECURSIVE LiteralSites(_, _)
LiteralSites(functions, i) ==
  IF i > Len(functions) THEN <<>>
  ELSE (IF functions[i].kind = "Normal"
        THEN LiteralLets(functions[i].def.body, 1) ELSE <<>>)
       \o LiteralSites(functions, i + 1)

\* C7: for a tree with N literal-typed let statements the query yields them
\* in source order, N elements, and non-literal bindings add none: the sites
\* a query collects from a tree are exactly its literal-typed let statements
\* in order, and the list it returns has one hint per collected site with
\* the labels in that order.
C7_SourceOrderLengthN ==
  [][/\ \A h \in handlers, g \in handlers' :
          (h.kind = "inlay_hint" /\ h.pc = "log_uri" /\ h \notin handlers'
           /\ g \notin handlers /\ g.pc = "log_inlays" /\ g.uri = h.uri)
            => [i \in 1..Len(g.inlays) |->
                  [start |-> g.inlays[i].start, label |-> g.inlays[i].label.val]]
               = LiteralSites(ast_map[h.uri].functions, 1)
     /\ \A h \in handlers :
          (h.kind = "inlay_hint" /\ h.pc = "log_inlays" /\ h \notin handlers'
           /\ reply'.status = "Ok(Some)")
            => /\ Len(reply'.hints) = Len(h.inlays)
               /\ \A i \in 1..Len(h.inlays) :
                    reply'.hints[i].label = h.inlays[i].label.val]_vars

\* C8: on_change with the text a document already holds changes neither
\* store: when the buffer of the document is the text of the event and its
\* tree is the tree of that text, the buffer write and the tree write of
\* that on_change leave document_map and ast_map as they were.
C8_IdempotentReplace ==
  [][/\ \A g \in handlers' :
          (g \notin handlers /\ g.pc = "insert_ast"
           /\ g.uri \in DOMAIN document_map /\ document_map[g.uri] = g.text)
            => document_map' = document_map /\ ast_map' = ast_map
     /\ \A h \in handlers :
          (h.pc = "insert_ast" /\ h \notin handlers'
           /\ h.uri \in DOMAIN ast_map
           /\ ast_map[h.uri] = parse_program(h.text)[1])
            => document_map' = document_map /\ ast_map' = ast_map]_vars

\* C8 witness: a changed event with the text the document already holds is
\* between its two writes, the tree store still holding the tree of the open.
C8_Witness ==
  \E h \in handlers :
    /\ h.kind = "did_change" /\ h.pc = "insert_ast"
    /\ h.uri \in DOMAIN ast_map
    /\ received[h.uri] = h.text
    /\ document_map[h.uri] = h.text
    /\ ast_map[h.uri] = parse_program(h.text)[1]

\* positionToOffset: start offset of the line plus the column
PositionToOffset(pos, rope) == try_line_to_char(rope, pos.line).val + pos.character

\* C9: for every buffer and every valid offset o, offset_to_position gives
\* the zero-based line containing o (the number of line breaks before o) and
\* the column o minus the start of that line (no line break lies between the
\* line start and o, and the line start is 0 or follows a line break), and
\* start of line plus column gives o again; "abc\ndefgh" maps 5 to (1, 1).
C9_OffsetToPositionRoundTrip ==
  (mapped.called /\ char_offset <= Len(buffer))
    => LET p == mapped.result.val
           start == char_offset - p.character
       IN /\ mapped.result.some
          /\ p.character >= 0 /\ start >= 0
          /\ \A k \in (start + 1)..char_offset : buffer[k] # "\n"
          /\ start = 0 \/ buffer[start] = "\n"
          /\ p.line = Cardinality({k \in 1..start : buffer[k] = "\n"})
          /\ PositionToOffset(p, buffer) = char_offset
          /\ (buffer = TextScenarioB /\ char_offset = 5)
               => p = [line |-> 1, character |-> 1]

\* C9 witness: offset 5 of "abc\ndefgh" has been mapped to line 1, column 1.
C9_Witness ==
  /\ mapped.called
  /\ buffer = TextScenarioB /\ char_offset = 5
  /\ mapped.result = Some([line |-> 1, character |-> 1])

\* C10: every opened/changed event emits the diagnostics of its parse, so the
\* diagnostics visible for a document are those of its latest parse: when no
\* on_change is in progress for a document that has a tree, the diagnostics
\* published for it are those parse_program gives for its text.
C10_DiagnosticsOfLatestParse ==
  \A uri \in DOMAIN ast_map :
    ~OnChangeInProgress(uri)
      => /\ uri \in DOMAIN published
         /\ published[uri] = parse_program(document_map[uri])[2]

\* C11: a changed event without content changes is rejected as an error of
\* that request and does not crash the server: the server never panics
\* indexing content_changes.
C11_MalformedEventRejected == panic.site # "content_changes[0]"

QueryPanicSites ==
  {"ast_map.get.unwrap", "literal_type.unwrap", "offset_to_position.unwrap"}

\* C12: under every interleaving with opened/changed events a hint query
\* completes with a reply and never panics: the server never panics inside
\* a hint query for a document that has a tree.
C12_QueryNeverPanics ==
  panic.uri \in DOMAIN ast_map => panic.site \notin QueryPanicSites

\* C15: every identifier that has a tree has a buffer, in every reachable
\* state (between the two writes of on_change as well), and therefore no
\* hint query ever answers from the buffer-absent branch.
C15_TreeImpliesBuffer ==
  /\ DOMAIN ast_map \subseteq DOMAIN document_map
  /\ reply.status # "Ok(None)"

\* C15 witness: an on_change is between its two writes for an identifier
\* that has its buffer and no tree yet, while a hint query for the same
\* identifier is in flight.
C15_Witness ==
  \E h \in handlers, q \in handlers :
    /\ h.pc = "insert_ast"
    /\ h.uri \in DOMAIN document_map /\ h.uri \notin DOMAIN ast_map
    /\ q.kind = "inlay_hint" /\ q.uri = h.uri

EntryOf(map, uri) == IF uri \in DOMAIN map THEN <<map[uri]>> ELSE <<>>

\* C16: an opened or changed event for a document changes only the entries
\* of that document: in every step, an identifier whose buffer or tree entry
\* changes is the identifier of the handler that performs a write of
\* on_change in that step.
C16_OnlyOwnEntriesChange ==
  [][\A uri \in Uris :
       (\/ EntryOf(document_map, uri) # EntryOf(document_map', uri)
        \/ EntryOf(ast_map, uri) # EntryOf(ast_map', uri))
         => \/ \E g \in handlers' :
                 g \notin handlers /\ g.pc = "insert_ast" /\ g.uri = uri
            \/ \E h \in handlers :
                 h \notin handlers' /\ h.pc = "insert_ast" /\ h.uri = uri]_vars

\* C16 witness: an on_change for one document is between its two writes
\* while another document holds a different text and its tree.
C16_Witness ==
  \E h \in handlers, other \in DOMAIN ast_map :
    /\ h.pc = "insert_ast"
    /\ other # h.uri
    /\ document_map[other] # h.text
    /\ ast_map[other] = parse_program(document_map[other])[1]
    /\ document_map[h.uri] = h.text

\* C19: offset_to_position gives None exactly for the offsets greater than
\* the length of the buffer in characters; the offset equal to the length
\* (one past the last character) still resolves to a position.
C19_OutOfRangeBoundary ==
  mapped.called => (mapped.result.some <=> char_offset <= Len(buffer))

\* C19 witness: the offset equal to the length of a non-empty buffer has
\* been mapped to a position, on the line after a final line break.
C19_Witness ==
  /\ mapped.called
  /\ Len(buffer) > 0 /\ char_offset = Len(buffer)
  /\ buffer[Len(buffer)] = "\n"
  /\ mapped.result.some
  /\ mapped.result.val.character = 0

\* the let statements that stand directly in the body of a Normal function
\* of a tree, as (function index, statement index)
TopLevelLets(ast) ==
  UNION {{<<f, j>> : j \in {k \in 1..Len(ast.functions[f].def.body) :
                              ast.functions[f].def.body[k].stmt = "Let"}} :
         f \in {g \in 1..Len(ast.functions) : ast.functions[g].kind = "Normal"}}
ExpressionAt(ast, site) == ast.functions[site[1]].def.body[site[2]].expression
LiteralLabel ==
  [Array |-> ": array", Bool |-> ": bool", Integer |-> ": integer", Str |-> ": string"]
\* a query moves from the tree read (h) to the buffer read (g)
CollectStep(h, g) ==
  /\ h \in handlers /\ h.kind = "inlay_hint" /\ h.pc = "log_uri" /\ h \notin handlers'
  /\ g \in handlers' /\ g \notin handlers /\ g.pc = "log_inlays" /\ g.uri = h.uri
\* a query at the buffer read returns its list
ReplyStep(h) ==
  /\ h \in handlers /\ h.kind = "inlay_hint" /\ h.pc = "log_inlays"
  /\ h \notin handlers' /\ reply'.status = "Ok(Some)"

C14_OnlyNormalTopLevelLets ==
  [][\A h \in handlers, g \in handlers' :
       CollectStep(h, g) =>
         LET sites == TopLevelLets(ast_map[h.uri])
         IN /\ Len(g.inlays) = Cardinality(sites)
            /\ {g.inlays[i].start : i \in 1..Len(g.inlays)}
               = {ExpressionAt(ast_map[h.uri], site).span.start : site \in sites}]_vars

\* C14 witness: a query has collected the single site at 78 from the tree
\* of the text with a builtin function, a nested let and a call statement.
C14_Witness ==
  \E h \in handlers :
    /\ h.pc = "log_inlays"
    /\ ast_map[h.uri] = parse_program(TextKinds)[1]
    /\ Len(h.inlays) = 1 /\ h.inlays[1].start = 78

\* C17: a query that has read its tree and goes on to read the buffer finds
\* the buffer of the same change event as that tree or of a later one, never
\* of an earlier one.
C17_BufferNotOlderThanTree ==
  \A h \in handlers :
    h.pc = "log_inlays" =>
      /\ h.uri \in DOMAIN doc_version
      /\ doc_version[h.uri] >= h.tree_version

\* C17 witness: a query about to read the buffer holds the sites of an old
\* tree while the buffer is that of a later change event.
C17_Witness ==
  \E h \in handlers :
    /\ Serving
    /\ h.pc = "log_inlays"
    /\ h.tree_version < doc_version[h.uri]
    /\ h.inlays # CollectInlays(parse_program(document_map[h.uri])[1])

\* C18: the version of an event has no effect on the stores: the buffer
\* write and the tree write of on_change store the text of the event and its
\* tree, the outcome is the same for every version the event could carry,
\* and an event with a lower version than the stored one overwrites.
C18_VersionHasNoEffect ==
  [][/\ (~InOnChange /\ InOnChange') =>
          LET h == CHOOSE g \in handlers' : g.pc = "insert_ast"
          IN /\ document_map'[h.uri] = h.text
             /\ \A v \in 0..MaxVersion :
                  document_map' = on_change_document(document_map, [h EXCEPT !.version = v])
     /\ (InOnChange /\ ~InOnChange') =>
          LET h == CHOOSE g \in handlers : g.pc = "insert_ast"
          IN /\ ast_map'[h.uri] = parse_program(h.text)[1]
             /\ \A v \in 0..MaxVersion :
                  ast_map' = on_change_ast(ast_map, [h EXCEPT !.version = v])]_vars

\* C18 witness: an event with a lower version than the one that wrote the
\* tree has overwritten the buffer with another text.
C18_Witness ==
  \E h \in handlers :
    /\ h.pc = "insert_ast"
    /\ h.uri \in DOMAIN ast_version
    /\ h.version < ast_version[h.uri]
    /\ document_map[h.uri] = h.text
    /\ ast_map[h.uri] # parse_program(h.text)[1]

\* index of the character that starts at byte offset b of text
CharIndexOfByte(text, b) ==
  CHOOSE i \in 0..Len(text) : ByteOffset(text, i + 1) = b

\* C20: the anchor of a hint is the position of the character at byte
\* offset (span start - 2) of the text, also when a multi-byte character
\* stands before the binding: for a query whose tree and buffer come from the
\* same change event, every hint is at the position of that character.
C20_AnchorIsCharAtByteOffset ==
  [][\A h \in handlers :
       (ReplyStep(h) /\ h.tree_version = doc_version[h.uri])
         => \A i \in 1..Len(h.inlays) :
              reply'.hints[i].position =
                offset_to_position(
                  CharIndexOfByte(document_map[h.uri], h.inlays[i].start - AnchorBack),
                  document_map[h.uri]).val]_vars

====
